---- MODULE Spec2Model ----
(***************************************************************************)
(* The QueryChatbot HTTP handler of portfolio-chatbot, in its two source   *)
(* variants: src/src/functions/QueryChatbot.js (axios) and                 *)
(* src/unnamed/part_000 (node-fetch).  One invocation of the handler is    *)
(* modelled from its start to its return.  The handler runs on the         *)
(* JavaScript event loop: each action below is one run-to-completion       *)
(* segment of the handler, from the settlement of the promise it awaits    *)
(* to its next await or its return.                                        *)
(*                                                                         *)
(* Environment assumptions: context.log and context.log.error are callable *)
(* and return normally (logging is provided infrastructure); constructing  *)
(* DefaultAzureCredential does not throw.                                   *)
(***************************************************************************)
EXTENDS Naturals, Sequences, FiniteSets, TLC

\* Longest inbound question string that is enumerated (in characters).
MaxQuestionLen == 2

VARIABLES
    variant,        \* which source file runs: "axios" or "fetch"
    env,            \* process.env, read-only
    body,           \* the inbound request body, as request.json() settles on it
    pc,             \* position of the handler
    questionText,   \* let questionText
    accessToken,    \* let accessToken
    tokenPromise,   \* credential.getToken(...) promise
    timeoutTimer,   \* the setTimeout(..., 10000) behind timeoutPromise
    race,           \* Promise.race([tokenPromise, timeoutPromise])
    call,           \* the outbound HTTP call
    outbound,       \* the outbound request as issued
    outboundCalls,  \* number of outbound calls issued
    overdue,        \* the outbound call passed the 15 s bound unanswered
    downstream,     \* what the knowledge-base service answered
    response,       \* the value the handler returned
    responses       \* number of values the handler returned

vars == <<variant, env, body, pc, questionText, accessToken, tokenPromise,
          timeoutTimer, race, call, outbound, outboundCalls, overdue,
          downstream, response, responses>>

----------------------------------------------------------------------------
\* JavaScript values.  A value is its type and its text as a character sequence.

JsUndefined == [type |-> "undefined", val |-> <<>>]
JsNull == [type |-> "null", val |-> <<>>]
JsString(s) == [type |-> "string", val |-> s]
JsNumber(d) == [type |-> "number", val |-> d]
JsBoolean(b) == [type |-> "boolean", val |-> b]
JsObject == [type |-> "object", val |-> <<"{", "}">>]
JsArray == [type |-> "object", val |-> <<"[", "]">>]

\* ToBoolean, as the || operator and the ! operator apply it.
ToBoolean(v) ==
    CASE v.type = "undefined" -> FALSE
      [] v.type = "null" -> FALSE
      [] v.type = "boolean" -> v.val = <<"true">>
      [] v.type = "number" -> v.val # <<"0">>
      [] v.type = "string" -> Len(v.val) > 0
      [] OTHER -> TRUE

Chars == {"a"}
StringsUpTo(n) == UNION {[1..k -> Chars] : k \in 0..n}

\* Values the `question` member of the inbound JSON object can have.
QuestionValues ==
    {JsUndefined, JsNull, JsNumber(<<"0">>), JsNumber(<<"4", "2">>),
     JsBoolean(<<"true">>), JsBoolean(<<"false">>), JsObject, JsArray}
    \cup {JsString(s) : s \in StringsUpTo(MaxQuestionLen)}

\* What request.json() settles on: a rejection (the body is not JSON, or is
\* empty), or the parsed root value: null, a root without members (an array,
\* a number, a string), or an object with or without a `question` member.
InboundBodies ==
    {[parses |-> FALSE, root |-> "none", question |-> JsUndefined],
     [parses |-> TRUE, root |-> "null", question |-> JsUndefined],
     [parses |-> TRUE, root |-> "array", question |-> JsUndefined]}
    \cup {[parses |-> TRUE, root |-> "object", question |-> q] : q \in QuestionValues}

DEFAULT_QUESTION == JsString(<<"Tell me about your portfolio">>)

\* requestData.question throws a TypeError when requestData is null.
PropertyReadThrows(b) == b.root = "null"

\* requestData.question || "Tell me about your portfolio"
ExtractQuestion(b) ==
    IF ToBoolean(b.question) THEN b.question ELSE DEFAULT_QUESTION

----------------------------------------------------------------------------
\* process.env: a variable is unset, or set to a string (possibly empty).

UNSET == "<unset>"
EnvValues == {UNSET, "", "set"}
Environments ==
    [WEBSITE_INSTANCE_ID : EnvValues, LANGUAGE_SERVICE_KEY : EnvValues,
     LANGUAGE_SERVICE_ENDPOINT : EnvValues, QA_KNOWLEDGE_BASE_ID : EnvValues]

\* !process.env.X is true for an unset variable and for the empty string.
EnvFalsy(v) == v = UNSET \/ v = ""

isLocalDevelopment == EnvFalsy(env.WEBSITE_INSTANCE_ID)

----------------------------------------------------------------------------
\* JSON texts of the knowledge-base service, as token sequences, and the
\* conversions the HTTP clients and the handler apply to them.

Whitespace == {" "}
NumberTokens == {"1", "1.0"}
KeyTokens == {"\"answers\""}

\* Response bodies the knowledge-base service can send.
DownstreamTexts ==
    {<<"{", "\"answers\"", ":", "1", "}">>,
     <<"{", " ", "\"answers\"", ":", " ", "1.0", " ", "}">>,
     <<" ", "1", " ">>,
     <<"{", "}">>,
     <<>>,
     <<"<html>">>}

\* Statuses the knowledge-base service can answer with.
DownstreamStatuses == {200, 204, 299, 304, 404, 500}

IsNotWhitespace(t) == t \notin Whitespace
StripWhitespace(text) == SelectSeq(text, IsNotWhitespace)

\* Number -> string of JSON.stringify: the shortest form of the number.
NumberToString(t) == IF t = "1.0" THEN "1" ELSE t

JsonInvalid == [ok |-> FALSE, type |-> "none", toks |-> <<>>]

\* JSON.parse: insignificant whitespace is dropped, numbers become Numbers.
JsonParse(text) ==
    LET s == StripWhitespace(text) IN
    CASE Len(s) = 1 /\ s[1] \in NumberTokens ->
            [ok |-> TRUE, type |-> "number", toks |-> <<NumberToString(s[1])>>]
      [] s = <<"{", "}">> ->
            [ok |-> TRUE, type |-> "object", toks |-> s]
      [] Len(s) = 5 /\ s[1] = "{" /\ s[2] \in KeyTokens /\ s[3] = ":"
                    /\ s[4] \in NumberTokens /\ s[5] = "}" ->
            [ok |-> TRUE, type |-> "object",
             toks |-> <<"{", s[2], ":", NumberToString(s[4]), "}">>]
      [] OTHER -> JsonInvalid

\* JSON.stringify of a parsed value, or of a string (quoted).
JsonStringify(v) ==
    IF v.type = "string" THEN <<"\"">> \o v.toks \o <<"\"">> ELSE v.toks

\* response.data of axios (default transformResponse): the parsed JSON when the
\* body is a non-empty string that parses, the body string itself otherwise.
AxiosData(text) ==
    IF text # <<>> /\ JsonParse(text).ok
    THEN JsonParse(text)
    ELSE [ok |-> TRUE, type |-> "string", toks |-> text]

\* Truthiness of response.data.
DataTruthy(d) == ~(d.type = "string" /\ d.toks = <<>>)

Is2xx(s) == s >= 200 /\ s < 300

----------------------------------------------------------------------------
\* The values the handler returns.

NoResponse ==
    [status |-> 0, kind |-> "none", error |-> <<>>, hasDetails |-> FALSE,
     details |-> <<>>, json |-> <<>>]

ErrorBody(status, error) ==
    [status |-> status, kind |-> "error", error |-> error, hasDetails |-> FALSE,
     details |-> <<>>, json |-> <<>>]

ErrorBodyWithDetails(status, error, details) ==
    [status |-> status, kind |-> "error", error |-> error, hasDetails |-> TRUE,
     details |-> details, json |-> <<>>]

\* return { status: 400, body: JSON.stringify({ error: "Invalid request format" }) }
ParseErrorResponse == ErrorBody(400, <<"Invalid request format">>)

\* The top-level catch: status 500 carrying error.message.
FunctionErrorResponse(message) ==
    ErrorBodyWithDetails(500, <<"An error occurred processing your request">>, message)

\* Mutant: the payload is serialised twice, body: JSON.stringify(JSON.stringify(data)).
SuccessResponse_DoubleEncoded(data) ==
    [status |-> 200, kind |-> "json", error |-> <<>>, hasDetails |-> FALSE,
     details |-> <<>>, json |-> <<"\"">> \o JsonStringify(data) \o <<"\"">>]

\* return { status: 200, headers: ..., body: JSON.stringify(data) }
SuccessResponse(data) ==
    [status |-> 200, kind |-> "json", error |-> <<>>, hasDetails |-> FALSE,
     details |-> <<>>, json |-> JsonStringify(data)]

\* axios variant, ECONNABORTED branch.
TimeoutResponse == ErrorBody(504, <<"Request to Language service timed out">>)

\* axios variant, no response received.
ConnectResponse == ErrorBody(500, <<"Failed to connect to Language service">>)

\* axios variant, the server answered outside 2xx:
\* status = response.status || 500, details = response.data || error.message
AxiosServiceErrorResponse(s, data) ==
    ErrorBodyWithDetails(s, <<"Language service error: ", ToString(s)>>,
        IF DataTruthy(data) THEN JsonStringify(data)
        ELSE <<"Request failed with status code ", ToString(s)>>)

\* Mutant: the downstream status is not relayed, a fixed 500 is returned.
FetchServiceErrorResponse_Fixed500(s) ==
    ErrorBody(500, <<"Language service error: ", ToString(500)>>)

\* fetch variant, !response.ok
FetchServiceErrorResponse(s) ==
    ErrorBody(s, <<"Language service error: ", ToString(s)>>)

\* Messages of the errors the handler throws.
KeyMissingMessage ==
    <<"LANGUAGE_SERVICE_KEY environment variable is required for local development">>
EndpointMissingMessage ==
    <<"LANGUAGE_SERVICE_ENDPOINT environment variable is not defined">>
ProjectMissingMessage ==
    <<"QA_KNOWLEDGE_BASE_ID environment variable is not defined">>
TokenTimeoutMessage == <<"Token acquisition timed out">>
CredentialMessage == <<"ManagedIdentityCredential authentication failed">>
AuthFailedMessage(message) == <<"Failed to authenticate: ">> \o message
InvalidJsonMessage == <<"invalid json response body">>
FetchFailedMessage == <<"request to knowledge base failed">>

----------------------------------------------------------------------------
\* The outbound request.

NoOutbound ==
    [url |-> <<>>, question |-> JsUndefined, top |-> 0, scheme |-> "none", credential |-> <<>>]

QnaUrl ==
    <<env.LANGUAGE_SERVICE_ENDPOINT, "/language/:query-knowledgebases?projectName=",
      env.QA_KNOWLEDGE_BASE_ID, "&deploymentName=production&api-version=2023-04-01">>

\* headers['Ocp-Apim-Subscription-Key'] = accessToken  (local)
\* headers['Authorization'] = `Bearer ${accessToken}`  (hosted)
OutboundRequest(token, q) ==
    [url |-> QnaUrl, question |-> q, top |-> 1,
     scheme |-> IF isLocalDevelopment THEN "Ocp-Apim-Subscription-Key" ELSE "Authorization",
     credential |-> IF isLocalDevelopment THEN <<token>> ELSE <<"Bearer ", token>>]

----------------------------------------------------------------------------
\* The handler.

Init ==
    /\ variant \in {"axios", "fetch"}
    /\ env \in Environments
    /\ body \in InboundBodies
    /\ pc = "start"
    /\ questionText = JsUndefined
    /\ accessToken = UNSET
    /\ tokenPromise = "idle"
    /\ timeoutTimer = "idle"
    /\ race = "idle"
    /\ call = "idle"
    /\ outbound = NoOutbound
    /\ outboundCalls = 0
    /\ overdue = FALSE
    /\ downstream = [status |-> 0, text |-> <<>>]
    /\ response = NoResponse
    /\ responses = 0

\* `return r` of the handler.
Return(r) ==
    /\ pc' = "responded"
    /\ response' = r
    /\ responses' = responses + 1

\* Mutant: a rejected request.json() is read as an empty object instead of
\* being answered with 400.
ParseFails_NullOnly(b) == PropertyReadThrows(b)

\* try { await request.json(); requestData.question || ... } catch (parseError)
ParseFails(b) == ~b.parses \/ PropertyReadThrows(b)

\* if (!accessToken) throw, local mode
KeyMissing == EnvFalsy(env.LANGUAGE_SERVICE_KEY)
\* Mutant: the check is `endpoint === undefined`, which lets "" through.
EndpointMissing_UndefinedOnly == env.LANGUAGE_SERVICE_ENDPOINT = UNSET

\* if (!endpoint) throw
EndpointMissing == EnvFalsy(env.LANGUAGE_SERVICE_ENDPOINT)
\* if (!projectName) throw
ProjectMissing == EnvFalsy(env.QA_KNOWLEDGE_BASE_ID)

\* "Prepare and make API request": the configuration checks, then the one
\* outbound call is issued and awaited.
PrepareAndCall(token, q) ==
    IF EndpointMissing
    THEN /\ Return(FunctionErrorResponse(EndpointMissingMessage))
         /\ UNCHANGED <<call, outbound, outboundCalls>>
    ELSE IF ProjectMissing
    THEN /\ Return(FunctionErrorResponse(ProjectMissingMessage))
         /\ UNCHANGED <<call, outbound, outboundCalls>>
    ELSE /\ outbound' = OutboundRequest(token, q)
         /\ outboundCalls' = outboundCalls + 1
         /\ call' = "inflight"
         /\ pc' = "awaitCall"
         /\ UNCHANGED <<response, responses>>

\* Mutant: the catch logs the authentication error without rethrowing it, and
\* the handler goes on with an undefined accessToken.
OnAuthError_Swallowed(message) ==
    /\ PrepareAndCall(UNSET, questionText)
    /\ UNCHANGED accessToken

\* catch (authError) { throw new Error(`Failed to authenticate: ...`) }, which
\* the top-level catch turns into a response.
OnAuthError(message) ==
    /\ Return(FunctionErrorResponse(AuthFailedMessage(message)))
    /\ UNCHANGED <<accessToken, call, outbound, outboundCalls>>

\* Mutant: every settlement of tokenPromise or timeoutPromise resumes the
\* handler, as two separate awaits in place of Promise.race would.
RacePending_Always == race # "idle"

\* Promise.race settles once: only while it is pending does a settlement of
\* tokenPromise or timeoutPromise resume the handler.
RacePending == race = "pending"

\* From the start of the handler to its first await after request.json():
\* the parse step, the choice of the authentication strategy, and in local
\* mode the request preparation up to the outbound call.
ParseRequest ==
    /\ pc = "start"
    /\ IF ParseFails(body)
       THEN /\ Return(ParseErrorResponse)
            /\ UNCHANGED <<questionText, accessToken, tokenPromise, timeoutTimer,
                           race, call, outbound, outboundCalls>>
       ELSE /\ questionText' = ExtractQuestion(body)
            /\ IF isLocalDevelopment
               THEN /\ accessToken' = env.LANGUAGE_SERVICE_KEY
                    /\ IF KeyMissing
                       THEN /\ Return(FunctionErrorResponse(KeyMissingMessage))
                            /\ UNCHANGED <<call, outbound, outboundCalls>>
                       ELSE PrepareAndCall(env.LANGUAGE_SERVICE_KEY, ExtractQuestion(body))
                    /\ UNCHANGED <<tokenPromise, timeoutTimer, race>>
               ELSE /\ tokenPromise' = "pending"
                    /\ timeoutTimer' = "armed"
                    /\ race' = "pending"
                    /\ pc' = "awaitToken"
                    /\ UNCHANGED <<accessToken, call, outbound, outboundCalls,
                                   response, responses>>
    /\ UNCHANGED <<variant, env, body, overdue, downstream>>

\* credential.getToken(...) resolves with a token.
TokenResolves ==
    /\ tokenPromise = "pending"
    /\ tokenPromise' = "resolved"
    /\ IF RacePending
       THEN /\ race' = "token"
            /\ accessToken' = "token"
            /\ PrepareAndCall("token", questionText)
       ELSE UNCHANGED <<race, accessToken, pc, call, outbound, outboundCalls,
                        response, responses>>
    /\ UNCHANGED <<variant, env, body, questionText, timeoutTimer, overdue, downstream>>

\* credential.getToken(...) rejects.
TokenRejects ==
    /\ tokenPromise = "pending"
    /\ tokenPromise' = "rejected"
    /\ IF RacePending
       THEN /\ race' = "tokenError"
            /\ OnAuthError(CredentialMessage)
       ELSE UNCHANGED <<race, accessToken, pc, call, outbound, outboundCalls,
                        response, responses>>
    /\ UNCHANGED <<variant, env, body, questionText, timeoutTimer, overdue, downstream>>

\* The 10 s timer fires: timeoutPromise rejects.  The timer is never cleared,
\* so it also fires after the race is settled and after the handler returned.
TimerFires ==
    /\ timeoutTimer = "armed"
    /\ timeoutTimer' = "fired"
    /\ IF RacePending
       THEN /\ race' = "timeout"
            /\ OnAuthError(TokenTimeoutMessage)
       ELSE UNCHANGED <<race, accessToken, pc, call, outbound, outboundCalls,
                        response, responses>>
    /\ UNCHANGED <<variant, env, body, questionText, tokenPromise, overdue, downstream>>

CallInFlight == pc = "awaitCall" /\ call = "inflight"

\* axios variant: the service answers; 2xx resolves, anything else rejects with
\* error.response set.
AxiosResponds ==
    /\ variant = "axios"
    /\ CallInFlight
    /\ \E s \in DownstreamStatuses, text \in DownstreamTexts :
          /\ downstream' = [status |-> s, text |-> text]
          /\ IF Is2xx(s)
             THEN Return(SuccessResponse(AxiosData(text)))
             ELSE Return(AxiosServiceErrorResponse(s, AxiosData(text)))
    /\ call' = "answered"
    /\ UNCHANGED <<variant, env, body, questionText, accessToken, tokenPromise,
                   timeoutTimer, race, outbound, outboundCalls, overdue>>

\* axios variant: timeout: 15000 elapses, the request is aborted and rejects
\* with code ECONNABORTED.
AxiosTimeout ==
    /\ variant = "axios"
    /\ CallInFlight
    /\ overdue' = TRUE
    /\ call' = "timedOut"
    /\ Return(TimeoutResponse)
    /\ UNCHANGED <<variant, env, body, questionText, accessToken, tokenPromise,
                   timeoutTimer, race, outbound, outboundCalls, downstream>>

\* axios variant: no response was received (network or request setup error).
AxiosNetworkError ==
    /\ variant = "axios"
    /\ CallInFlight
    /\ call' = "failed"
    /\ Return(ConnectResponse)
    /\ UNCHANGED <<variant, env, body, questionText, accessToken, tokenPromise,
                   timeoutTimer, race, outbound, outboundCalls, overdue, downstream>>

\* fetch variant: the service answers, and the body is read with
\* response.text() (not ok) or response.json() (ok).
FetchResponds ==
    /\ variant = "fetch"
    /\ CallInFlight
    /\ \E s \in DownstreamStatuses, text \in DownstreamTexts :
          /\ downstream' = [status |-> s, text |-> text]
          /\ IF ~Is2xx(s)
             THEN Return(FetchServiceErrorResponse(s))
             ELSE IF JsonParse(text).ok
             THEN Return(SuccessResponse(JsonParse(text)))
             ELSE Return(FunctionErrorResponse(InvalidJsonMessage))
    /\ call' = "answered"
    /\ UNCHANGED <<variant, env, body, questionText, accessToken, tokenPromise,
                   timeoutTimer, race, outbound, outboundCalls, overdue>>

\* fetch variant: fetch rejects; the top-level catch answers.
FetchNetworkError ==
    /\ variant = "fetch"
    /\ CallInFlight
    /\ call' = "failed"
    /\ Return(FunctionErrorResponse(FetchFailedMessage))
    /\ UNCHANGED <<variant, env, body, questionText, accessToken, tokenPromise,
                   timeoutTimer, race, outbound, outboundCalls, overdue, downstream>>

\* fetch variant: 15 s pass with the call unanswered.  fetch is given no
\* timeout and no abort signal, so the handler goes on awaiting.
FetchBoundElapses ==
    /\ variant = "fetch"
    /\ CallInFlight
    /\ ~overdue
    /\ overdue' = TRUE
    /\ UNCHANGED <<variant, env, body, pc, questionText, accessToken, tokenPromise,
                   timeoutTimer, race, call, outbound, outboundCalls, downstream,
                   response, responses>>

Next ==
    \/ ParseRequest
    \/ TokenResolves
    \/ TokenRejects
    \/ TimerFires
    \/ AxiosResponds
    \/ AxiosTimeout
    \/ AxiosNetworkError
    \/ FetchResponds
    \/ FetchNetworkError
    \/ FetchBoundElapses

Spec == Init /\ [][Next]_vars

\* The event loop runs every ready handler segment and fires every armed
\* timer; nothing obliges the credential provider or the knowledge-base
\* service to ever settle.
Fairness ==
    /\ WF_vars(ParseRequest)
    /\ WF_vars(TimerFires)
    /\ WF_vars(AxiosTimeout)
    /\ WF_vars(FetchBoundElapses)

LiveSpec == Init /\ [][Next]_vars /\ Fairness

----------------------------------------------------------------------------
\* Properties.

Mentions(message, fragment) == \E i \in DOMAIN message : message[i] = fragment

Responded == pc = "responded"

\* C1: whenever the outbound call does not complete within the 15 s bound,
\* the invocation responds with status 504 and the timeout-specific error
\* body, in both variants and both modes.
C1_TimeoutGives504 ==
    (Responded /\ overdue) =>
        /\ response.status = 504
        /\ response.kind = "error"
        /\ response.error = <<"Request to Language service timed out">>

\* C2: every invocation eventually ends by returning exactly one response,
\* the answer or a structured error with an `error` field, also when the
\* token acquisition or the outbound call never settles.
C2_EventuallyOneResponse ==
    <>(/\ Responded
       /\ responses = 1
       /\ \/ response.kind = "json"
          \/ response.kind = "error" /\ Len(response.error) > 0)

\* C3: in hosted mode, when the token acquisition has not settled when the
\* 10 s timer fires, the handler returns status 500 carrying the timeout
\* message and never issues the outbound call.
C3_TokenTimeout ==
    race = "timeout" =>
        /\ Responded
        /\ response.status = 500
        /\ response.kind = "error"
        /\ response.hasDetails
        /\ Mentions(response.details, "Token acquisition timed out")
        /\ outboundCalls = 0
        /\ call = "idle"

C3_Witness ==
    /\ race = "timeout"
    /\ ~EnvFalsy(env.WEBSITE_INSTANCE_ID)
    /\ tokenPromise = "pending"
    /\ Responded

C5_QuestionNonEmptyString ==
    outboundCalls > 0 =>
        /\ outbound.question.type = "string"
        /\ Len(outbound.question.val) > 0

\* C6: for every inbound body that is valid JSON, the outbound question is the
\* inbound `question` verbatim when it is a non-empty string and the fixed
\* default when it is absent, and processing continues past the parse step.
C6_QuestionForwarded ==
    (body.parses /\ pc # "start") =>
        /\ (body.question.type = "string" /\ Len(body.question.val) > 0)
              => questionText = body.question
        /\ body.question.type = "undefined"
              => questionText = JsString(<<"Tell me about your portfolio">>)
        /\ response.status # 400
        /\ outboundCalls > 0 => outbound.question = questionText

\* C7: when the inbound body fails to parse as JSON, the handler returns
\* status 400 with {"error": "Invalid request format"} at once; no credential
\* is acquired and no outbound call is made.
C7_ParseFailure ==
    (~body.parses /\ pc # "start") =>
        /\ Responded
        /\ responses = 1
        /\ response.status = 400
        /\ response.kind = "error"
        /\ response.error = <<"Invalid request format">>
        /\ ~response.hasDetails
        /\ accessToken = UNSET
        /\ tokenPromise = "idle"
        /\ race = "idle"
        /\ outboundCalls = 0
        /\ call = "idle"

C7_Witness == ~body.parses /\ Responded /\ response.status = 400

RequiredConfigUnset ==
    \/ EnvFalsy(env.WEBSITE_INSTANCE_ID) /\ EnvFalsy(env.LANGUAGE_SERVICE_KEY)
    \/ EnvFalsy(env.LANGUAGE_SERVICE_ENDPOINT)
    \/ EnvFalsy(env.QA_KNOWLEDGE_BASE_ID)

\* C8 as stated: whenever a required configuration value is unset, the handler
\* returns status 500 carrying the exception's message and never attempts the
\* outbound call.
C8_ConfigUnsetGives500 ==
    (RequiredConfigUnset /\ Responded) =>
        /\ response.status = 500
        /\ response.hasDetails
        /\ outboundCalls = 0

\* C8 amended: whenever a required configuration value is unset and the parse
\* step does not reject the request with 400, the handler returns status 500
\* carrying the exception's message and never attempts the outbound call.
C8_ConfigUnsetAfterParse ==
    /\ RequiredConfigUnset => outboundCalls = 0 /\ call = "idle"
    /\ (RequiredConfigUnset /\ Responded /\ response.status # 400) =>
          /\ response.status = 500
          /\ response.kind = "error"
          /\ response.hasDetails
          /\ Len(response.details) > 0
          /\ (EnvFalsy(env.WEBSITE_INSTANCE_ID) /\ EnvFalsy(env.LANGUAGE_SERVICE_KEY))
                => Mentions(response.details,
                      "LANGUAGE_SERVICE_KEY environment variable is required for local development")
          /\ race = "token" =>
                \/ Mentions(response.details,
                      "LANGUAGE_SERVICE_ENDPOINT environment variable is not defined")
                \/ Mentions(response.details,
                      "QA_KNOWLEDGE_BASE_ID environment variable is not defined")

C8_Witness ==
    /\ Responded
    /\ race = "token"
    /\ ~EnvFalsy(env.LANGUAGE_SERVICE_ENDPOINT)
    /\ env.QA_KNOWLEDGE_BASE_ID = ""
    /\ response.status = 500

\* C9: whenever the downstream call returns a non-success status s, the handler
\* returns that same status s with an error body that mentions s.
C9_RelayStatus ==
    (call = "answered" /\ ~(downstream.status >= 200 /\ downstream.status < 300)) =>
        /\ Responded
        /\ response.status = downstream.status
        /\ response.kind = "error"
        /\ Mentions(response.error, ToString(downstream.status))

C9_Witness ==
    /\ call = "answered"
    /\ downstream.status = 404
    /\ response.status = 404
    /\ Mentions(response.error, "404")

\* C10: the authentication outcome is decided by whichever of the token
\* acquisition and the 10 s timer settles first; the loser's later settlement
\* changes nothing: no second response, no error after a token that came
\* first, no outbound call after a timer that fired first.
C10_LoserChangesNothing ==
    /\ [](responses <= 1)
    /\ [](race = "timeout" => outboundCalls = 0)
    /\ [](race = "token" => ~Mentions(response.details, "Token acquisition timed out"))
    /\ [][/\ race \in {"token", "tokenError", "timeout"} => race' = race
          /\ (/\ race # "pending"
              /\ \/ timeoutTimer = "armed" /\ timeoutTimer' = "fired"
                 \/ tokenPromise = "pending" /\ tokenPromise' # "pending")
                => UNCHANGED <<pc, accessToken, call, outbound, outboundCalls,
                               response, responses>>]_vars

C10_Witness ==
    /\ race = "token"
    /\ timeoutTimer = "fired"
    /\ Responded
    /\ response.status = 200

====
